---------------------------- MODULE Spec2Model ----------------------------
(***************************************************************************)
(* A model of the HMM read/write controller (HMMControls2) and of the      *)
(* align_label_smoothed_cross_entropy criterion of attn2d.                 *)
(*                                                                         *)
(* Floats are modelled exactly.  A float is a record [k, n, d]:            *)
(*   k = "fin"  : the rational n/d (d > 0, lowest terms);                  *)
(*   k = "log"  : the float ln(n/d) (n, d > 0, lowest terms), the form in  *)
(*                which every finite log-space number is held;             *)
(*   k = "pinf", "ninf", "nan" : +infinity, -infinity, NaN.                *)
(* exp takes the "log" form to the "fin" form and log takes it back, so    *)
(* log-space sums are exact products and the IEEE rules for infinities     *)
(* and NaN are the ones of the operators below.                            *)
(***************************************************************************)
EXTENDS Integers, Sequences, FiniteSets

VARIABLES
    pc,                     \* position of the computation being modelled
    \* logsumexp(a, b)
    a, b, out,
    \* HMMControls2.__init__ / forward_gate
    controller_dim, num_controller_layers, gate, in_features, x, l,
    \* HMMControls2.forward
    Tt, B, Ts, logits, emissions, controls, M, alpha, beta, prior,
    gamma, ksi, read, write,
    \* AlignLabelSmoothedCrossEntropyCriterion.compute_loss
    eps, padding_idx, lprobs, target, reduce, loss, nll_loss,
    \* AlignLabelSmoothedCrossEntropyCriterion.forward / aggregate_logging_outputs
    sentence_avg, regul_align_scale, logging_outputs, aggregated

lseVars  == <<a, b, out>>
gateVars == <<controller_dim, num_controller_layers, gate, in_features, x, l>>
hmmVars  == <<Tt, B, Ts, logits, emissions, controls, M, alpha, beta, prior,
              gamma, ksi, read, write>>
lossVars == <<eps, padding_idx, lprobs, target, reduce, loss, nll_loss>>
aggVars  == <<sentence_avg, regul_align_scale, logging_outputs, aggregated>>
vars     == <<pc, lseVars, gateVars, hmmVars, lossVars, aggVars>>

(***************************************************************************)
(* Bounds of the model.                                                    *)
(***************************************************************************)
MaxQ == 3           \* logsumexp operands are ln(n/d), n, d in 1..MaxQ
MaxDim == 8         \* controller_dim in 1..MaxDim
MaxLayers == 3      \* num_controller_layers in 0..MaxLayers
MaxTt == 3          \* target_len in 1..MaxTt
MaxTs == 3          \* source_len in 1..MaxTs
MaxB == 1           \* batch size in 1..MaxB
MaxPositions == 2   \* B*Tt target positions of compute_loss in 1..MaxPositions
MaxVocab == 3       \* vocabulary size in 2..MaxVocab
MaxWorkers == 2     \* data-parallel workers in 0..MaxWorkers

(***************************************************************************)
(* Exact float arithmetic.                                                 *)
(***************************************************************************)
Abs(i) == IF i < 0 THEN -i ELSE i

RECURSIVE GCD(_, _)
GCD(i, j) == IF j = 0 THEN i ELSE GCD(j, i % j)

Fin(n, d) ==
    LET g == GCD(Abs(n), Abs(d))
        s == IF d < 0 THEN -1 ELSE 1
    IN [k |-> "fin", n |-> (s * n) \div g, d |-> (s * d) \div g]

LogOf(n, d) ==
    LET g == GCD(n, d) IN [k |-> "log", n |-> n \div g, d |-> d \div g]

NaN    == [k |-> "nan",  n |-> 0, d |-> 1]
PosInf == [k |-> "pinf", n |-> 0, d |-> 1]
NegInf == [k |-> "ninf", n |-> 0, d |-> 1]
None   == [k |-> "none", n |-> 0, d |-> 1]    \* a float not yet computed
Zero   == Fin(0, 1)
One    == Fin(1, 1)
Log1   == LogOf(1, 1)                          \* the float 0.0 in log space

IsFinite(u) == u.k \in {"fin", "log"}

\* u + v of linear floats
RAdd(u, v) ==
    CASE u.k = "nan" \/ v.k = "nan" -> NaN
      [] u.k = "pinf" -> IF v.k = "ninf" THEN NaN ELSE PosInf
      [] u.k = "ninf" -> IF v.k = "pinf" THEN NaN ELSE NegInf
      [] v.k \in {"pinf", "ninf"} -> v
      [] OTHER ->
           LET g == GCD(u.d, v.d)
           IN Fin(u.n * (v.d \div g) + v.n * (u.d \div g), u.d * (v.d \div g))

RSign(u) ==
    CASE u.k = "pinf" -> 1
      [] u.k = "ninf" -> -1
      [] OTHER -> IF u.n > 0 THEN 1 ELSE IF u.n < 0 THEN -1 ELSE 0

\* u * v of linear floats (0 * inf is NaN)
RMul(u, v) ==
    CASE u.k = "nan" \/ v.k = "nan" -> NaN
      [] u.k = "fin" /\ v.k = "fin" ->
           LET g1 == GCD(Abs(u.n), v.d)
               g2 == GCD(Abs(v.n), u.d)
           IN Fin((u.n \div g1) * (v.n \div g2), (u.d \div g2) * (v.d \div g1))
      [] OTHER ->
           LET s == RSign(u) * RSign(v)
           IN IF s = 0 THEN NaN ELSE IF s > 0 THEN PosInf ELSE NegInf

RNeg(u) ==
    CASE u.k = "fin" -> Fin(-u.n, u.d)
      [] u.k = "pinf" -> NegInf
      [] u.k = "ninf" -> PosInf
      [] OTHER -> NaN

RSub(u, v) == RAdd(u, RNeg(v))

\* u / v of Python numbers, v a finite non-zero number
RDiv(u, v) == RMul(u, Fin(v.d, v.n))

\* u + v of log-space floats: ln p + ln q = ln(pq)
LAdd(u, v) ==
    CASE u.k = "nan" \/ v.k = "nan" -> NaN
      [] u.k = "pinf" -> IF v.k = "ninf" THEN NaN ELSE PosInf
      [] u.k = "ninf" -> IF v.k = "pinf" THEN NaN ELSE NegInf
      [] v.k \in {"pinf", "ninf"} -> v
      [] OTHER ->
           LET g1 == GCD(u.n, v.d)
               g2 == GCD(v.n, u.d)
           IN LogOf((u.n \div g1) * (v.n \div g2), (u.d \div g2) * (v.d \div g1))

LNeg(u) ==
    CASE u.k = "log" -> LogOf(u.d, u.n)
      [] u.k = "pinf" -> NegInf
      [] u.k = "ninf" -> PosInf
      [] OTHER -> NaN

\* u - v of log-space floats (inf - inf is NaN)
LSub(u, v) == LAdd(u, LNeg(v))

\* u < v of log-space floats, neither NaN
LLess(u, v) ==
    CASE u.k = "ninf" -> v.k # "ninf"
      [] u.k = "pinf" -> FALSE
      [] v.k = "ninf" -> FALSE
      [] v.k = "pinf" -> TRUE
      [] OTHER -> u.n * v.d < v.n * u.d

\* torch.max(u, v), elementwise: NaN if either is NaN
LMax(u, v) ==
    IF u.k = "nan" \/ v.k = "nan" THEN NaN
    ELSE IF LLess(u, v) THEN v ELSE u

\* torch.exp: log space to linear
Exp(u) ==
    CASE u.k = "log" -> Fin(u.n, u.d)
      [] u.k = "ninf" -> Zero
      [] u.k = "pinf" -> PosInf
      [] OTHER -> NaN

\* torch.log: linear to log space
Log(u) ==
    CASE u.k = "fin" ->
           IF u.n > 0 THEN LogOf(u.n, u.d)
           ELSE IF u.n = 0 THEN NegInf ELSE NaN
      [] u.k = "pinf" -> PosInf
      [] OTHER -> NaN

\* sum of the linear floats f[i], i in lo..hi (0 for an empty range)
RECURSIVE RSum(_, _, _)
RSum(f, lo, hi) == IF hi < lo THEN Zero ELSE RAdd(RSum(f, lo, hi - 1), f[hi])

\* sum of the log-space floats f[i], i in lo..hi (0.0 for an empty range)
RECURSIVE LSum(_, _, _)
LSum(f, lo, hi) == IF hi < lo THEN Log1 ELSE LAdd(LSum(f, lo, hi - 1), f[hi])

\* max of the log-space floats f[i], i in lo..hi, lo <= hi
RECURSIVE LMaxOver(_, _, _)
LMaxOver(f, lo, hi) ==
    IF hi = lo THEN f[lo] ELSE LMax(LMaxOver(f, lo, hi - 1), f[hi])

(***************************************************************************)
(* logsumexp(a, b), hmm_controls2.py                                       *)
(***************************************************************************)
logsumexp(u, v) ==
    LET m == LMax(u, v)
    IN Log(RAdd(Exp(LSub(u, m)), Exp(LSub(v, m))))

LogValues ==
    {NegInf, PosInf} \cup {LogOf(n, d) : n \in 1..MaxQ, d \in 1..MaxQ}

LseCall ==
    /\ pc = "lse"
    /\ out' = logsumexp(a, b)
    /\ pc' = "lse_done"
    /\ UNCHANGED <<a, b>>
    /\ UNCHANGED <<gateVars, hmmVars, lossVars, aggVars>>

(***************************************************************************)
(* HMMControls2.__init__ and forward_gate: the widths of the gate network  *)
(***************************************************************************)
\* Linear(in_features, out_features): the layer's two widths
Linear(i, o) == [in_features |-> i, out_features |-> o]

\* one iteration of the loop of __init__; Linear(0, 0) cannot be built:
\* xavier_uniform_ divides by fan_in + fan_out = 0
InitLayer ==
    /\ pc = "init_loop"
    /\ Len(gate) < num_controller_layers
    /\ IF in_features = 0
       THEN pc' = "init_error" /\ UNCHANGED <<gate, in_features>>
       ELSE /\ gate' = Append(gate, Linear(in_features, in_features))
            /\ in_features' = in_features \div 2
            /\ pc' = pc
    /\ UNCHANGED <<controller_dim, num_controller_layers, x, l>>
    /\ UNCHANGED <<lseVars, hmmVars, lossVars, aggVars>>

\* the final projection of __init__, after which forward_gate gets an input
\* of width controller_dim; whether nn.Linear(0, 1) can be built depends on
\* the torch build (older ones divide by fan_in = 0)
InitFinal ==
    /\ pc = "init_loop"
    /\ Len(gate) = num_controller_layers
    /\ \/ /\ gate' = Append(gate, Linear(in_features, 1))
          /\ pc' = "gate_loop"
          /\ x' = controller_dim
          /\ l' = 1
       \/ /\ in_features = 0
          /\ pc' = "init_error"
          /\ UNCHANGED <<gate, x, l>>
    /\ UNCHANGED <<controller_dim, num_controller_layers, in_features>>
    /\ UNCHANGED <<lseVars, hmmVars, lossVars, aggVars>>

\* one iteration of the loop of forward_gate: x = F.glu(l(x))
GateLayer ==
    /\ pc = "gate_loop"
    /\ l < Len(gate)
    /\ IF x # gate[l].in_features \/ gate[l].out_features % 2 # 0
       THEN pc' = "gate_error" /\ UNCHANGED <<x, l>>
       ELSE /\ x' = gate[l].out_features \div 2
            /\ l' = l + 1
            /\ pc' = pc
    /\ UNCHANGED <<controller_dim, num_controller_layers, gate, in_features>>
    /\ UNCHANGED <<lseVars, hmmVars, lossVars, aggVars>>

\* return self.gate[-1](x)
GateFinal ==
    /\ pc = "gate_loop"
    /\ l = Len(gate)
    /\ IF x # gate[l].in_features
       THEN pc' = "gate_error" /\ UNCHANGED x
       ELSE x' = gate[l].out_features /\ pc' = "gate_done"
    /\ UNCHANGED <<controller_dim, num_controller_layers, gate, in_features, l>>
    /\ UNCHANGED <<lseVars, hmmVars, lossVars, aggVars>>

(***************************************************************************)
(* HMMControls2.forward.  Tensors are functions over 0-based indices.      *)
(***************************************************************************)
\* F.logsigmoid(u) of the logit u = ln(n/d): ln(n/(n+d))
logsigmoid(u) ==
    CASE u.k = "log" -> LogOf(u.n, u.n + u.d)
      [] u.k = "pinf" -> Log1
      [] u.k = "ninf" -> NegInf
      [] OTHER -> NaN

\* torch.logsumexp over f[lo..hi], lo <= hi: the maximum is taken out unless
\* it is infinite
TorchLogsumexp(f, lo, hi) ==
    LET m  == LMaxOver(f, lo, hi)
        m0 == IF m.k \in {"pinf", "ninf"} THEN Log1 ELSE m
        e  == [i \in lo..hi |-> Exp(LSub(f[i], m0))]
    IN LAdd(Log(RSum(e, lo, hi)), m0)

\* predict_read_write, then permute(1, 0, 2, 3): the gate's logits g[b][t][j]
\* give (log rho, log(1 - rho)) at [t][b][j]
predict_read_write(g) ==
    [t \in 0..Tt-1 |-> [n \in 0..B-1 |-> [j \in 0..Ts-1 |->
        LET s == logsigmoid(g[n][t][j])
        IN [c \in 0..1 |-> IF c = 0 THEN s ELSE LSub(s, g[n][t][j])]]]]

\* get_transitions without the boundary assignments
ForceNothing(c) == c

\* the two in-place assignments of get_transitions to controls[:, :, -1, :]
ForceLast(c) ==
    [t \in 0..Tt-1 |-> [n \in 0..B-1 |-> [j \in 0..Ts-1 |->
        IF j = Ts - 1
        THEN [i \in 0..1 |-> IF i = 0 THEN NegInf ELSE Log1]
        ELSE c[t][n][j]]]]

\* a transition entry whose read sum runs over k..j instead of k..j-1
TransitionEntryOffByOne(c, t, n, k, j) ==
    LAdd(c[t][n][j][1], LSum([i \in 0..Ts-1 |-> c[t][n][i][0]], k, j))

\* M[:, :, k, j] = controls[:, :, j, 1] + torch.sum(controls[:, :, k:j, 0])
TransitionEntry(c, t, n, k, j) ==
    LAdd(c[t][n][j][1], LSum([i \in 0..Ts-1 |-> c[t][n][i][0]], k, j - 1))

get_transitions(c) ==
    LET c2 == ForceLast(c)
    IN [t \in 0..Tt-1 |-> [n \in 0..B-1 |-> [k \in 0..Ts-1 |-> [j \in 0..Ts-1 |->
           IF j >= k THEN TransitionEntry(c2, t, n, k, j) ELSE NegInf]]]]

\* the body of the induction of _forward_alpha at step i, given alpha[i-1]
AlphaStep(em, m, prev, i) ==
    [n \in 0..B-1 |-> [j \in 0..Ts-1 |->
        LAdd(TorchLogsumexp([k \in 0..Ts-1 |-> LAdd(prev[n][k], m[i-1][n][k][j])],
                            0, Ts - 1),
             em[i][n][j])]]

\* alpha[0..i] of _forward_alpha
RECURSIVE AlphaUpTo(_, _, _)
AlphaUpTo(em, m, i) ==
    IF i = 0
    THEN [t \in {0} |-> [n \in 0..B-1 |-> [j \in 0..Ts-1 |->
             LAdd(em[0][n][j], LogOf(1, Ts))]]]
    ELSE LET prev == AlphaUpTo(em, m, i - 1)
             row  == AlphaStep(em, m, prev[i-1], i)
         IN [t \in 0..i |-> IF t < i THEN prev[t] ELSE row]

_forward_alpha(em, m) == AlphaUpTo(em, m, Tt - 1)

\* a backward step that reads the emissions of step i instead of step i+1
BetaStepSameEmission(em, m, next, i) ==
    [n \in 0..B-1 |-> [k \in 0..Ts-1 |->
        TorchLogsumexp([j \in 0..Ts-1 |->
                           LAdd(LAdd(m[i][n][k][j], next[n][j]), em[i][n][j])],
                       0, Ts - 1)]]

\* the body of the loop of _backward_beta at step i, given beta[i+1]
BetaStep(em, m, next, i) ==
    [n \in 0..B-1 |-> [k \in 0..Ts-1 |->
        TorchLogsumexp([j \in 0..Ts-1 |->
                           LAdd(LAdd(m[i][n][k][j], next[n][j]), em[i+1][n][j])],
                       0, Ts - 1)]]

\* beta[i..Tt-1] of _backward_beta
RECURSIVE BetaDownTo(_, _, _)
BetaDownTo(em, m, i) ==
    IF i = Tt - 1
    THEN [t \in {Tt - 1} |-> [n \in 0..B-1 |-> [j \in 0..Ts-1 |-> Log1]]]
    ELSE LET next == BetaDownTo(em, m, i + 1)
             row  == BetaStep(em, m, next[i+1], i)
         IN [t \in i..Tt-1 |-> IF t > i THEN next[t] ELSE row]

_backward_beta(em, m) == BetaDownTo(em, m, 0)

\* prior = torch.logsumexp(alpha[-1:], dim=-1, keepdim=True)
Prior(al) ==
    [n \in 0..B-1 |-> TorchLogsumexp(al[Tt-1][n], 0, Ts - 1)]

\* gamma = torch.exp(alpha + beta - prior)
Gamma(al, be, pr) ==
    [t \in 0..Tt-1 |-> [n \in 0..B-1 |-> [j \in 0..Ts-1 |->
        Exp(LSub(LAdd(al[t][n][j], be[t][n][j]), pr[n]))]]]

\* a transition posterior that pairs alpha[:-1] with M[1:] instead of M[:-1]
KsiShiftedM(al, be, em, m, pr) ==
    [t \in 0..Tt-2 |-> [n \in 0..B-1 |-> [k \in 0..Ts-1 |-> [j \in 0..Ts-1 |->
        Exp(LSub(LAdd(LAdd(LAdd(al[t][n][k], be[t+1][n][j]), em[t+1][n][j]),
                      m[t+1][n][k][j]),
                 pr[n]))]]]]

\* ksi = torch.exp(alpha[:-1] + beta[1:] + emissions[1:] + M[:-1] - prior)
Ksi(al, be, em, m, pr) ==
    [t \in 0..Tt-2 |-> [n \in 0..B-1 |-> [k \in 0..Ts-1 |-> [j \in 0..Ts-1 |->
        Exp(LSub(LAdd(LAdd(LAdd(al[t][n][k], be[t+1][n][j]), em[t+1][n][j]),
                      m[t][n][k][j]),
                 pr[n]))]]]]

\* write = gamma[1:]
WriteLabels(ga) == [t \in 0..Tt-2 |-> ga[t+1]]

\* read labels summed over ksi[t-1, :, :j+1, j:] instead of [.., j+1:]
ReadLabelsFromJ(ks) ==
    [t \in 0..Tt-2 |-> [n \in 0..B-1 |-> [j \in 0..Ts-1 |->
        RSum([k \in 0..j |-> RSum(ks[t][n][k], j, Ts - 1)], 0, j)]]]

\* read[t-1, :, j] = ksi[t-1, :, :j+1, j+1:].sum(dim=-1).sum(dim=-1)
ReadLabels(ks) ==
    [t \in 0..Tt-2 |-> [n \in 0..B-1 |-> [j \in 0..Ts-1 |->
        RSum([k \in 0..j |-> RSum(ks[t][n][k], j + 1, Ts - 1)], 0, j)]]]

\* the inputs: gate logits repeat a pattern of two values and emission
\* scores a pattern of three values along the flattened tensor, every
\* pattern over the values below
LogitValues == {LogOf(1, 1), LogOf(3, 1)}
EmissionValues == {NegInf, LogOf(1, 2), LogOf(1, 1)}
Patterns(S, period) == [0..period-1 -> S]

hmmIn == <<Tt, B, Ts, logits, emissions>>

\* controls = self.predict_read_write(observations).permute(1,0,2,3)
PredictReadWrite ==
    /\ pc = "predict"
    /\ controls' = predict_read_write(logits)
    /\ pc' = "transitions"
    /\ UNCHANGED <<hmmIn, M, alpha, beta, prior, gamma, ksi, read, write>>
    /\ UNCHANGED <<lseVars, gateVars, lossVars, aggVars>>

\* M = self.get_transitions(controls.clone())
GetTransitions ==
    /\ pc = "transitions"
    /\ M' = get_transitions(controls)
    /\ pc' = "alpha"
    /\ UNCHANGED <<hmmIn, controls, alpha, beta, prior, gamma, ksi, read, write>>
    /\ UNCHANGED <<lseVars, gateVars, lossVars, aggVars>>

\* alpha = self._forward_alpha(emissions, M)
ForwardAlpha ==
    /\ pc = "alpha"
    /\ alpha' = _forward_alpha(emissions, M)
    /\ pc' = "beta"
    /\ UNCHANGED <<hmmIn, controls, M, beta, prior, gamma, ksi, read, write>>
    /\ UNCHANGED <<lseVars, gateVars, lossVars, aggVars>>

\* beta = self._backward_beta(emissions, M)
BackwardBeta ==
    /\ pc = "beta"
    /\ beta' = _backward_beta(emissions, M)
    /\ pc' = "posteriors"
    /\ UNCHANGED <<hmmIn, controls, M, alpha, prior, gamma, ksi, read, write>>
    /\ UNCHANGED <<lseVars, gateVars, lossVars, aggVars>>

\* prior, gamma and ksi of forward
Posteriors ==
    /\ pc = "posteriors"
    /\ prior' = Prior(alpha)
    /\ gamma' = Gamma(alpha, beta, prior')
    /\ ksi' = Ksi(alpha, beta, emissions, M, prior')
    /\ pc' = "labels"
    /\ UNCHANGED <<hmmIn, controls, M, alpha, beta, read, write>>
    /\ UNCHANGED <<lseVars, gateVars, lossVars, aggVars>>

\* the read/write labels of forward
Labels ==
    /\ pc = "labels"
    /\ write' = WriteLabels(gamma)
    /\ read' = ReadLabels(ksi)
    /\ pc' = "hmm_done"
    /\ UNCHANGED <<hmmIn, controls, M, alpha, beta, prior, gamma, ksi>>
    /\ UNCHANGED <<lseVars, gateVars, lossVars, aggVars>>

(***************************************************************************)
(* AlignLabelSmoothedCrossEntropyCriterion.compute_loss.  lprobs[i][v] is   *)
(* the log-probability of word v (0-based) at target position i (1-based), *)
(* held in units of ln 2 so that a row is exactly normalised.              *)
(***************************************************************************)
\* the positions kept by [non_pad_mask], in order
RECURSIVE NonPad(_, _, _)
NonPad(tg, pad, i) ==
    IF i = 0 THEN <<>>
    ELSE IF tg[i] # pad THEN Append(NonPad(tg, pad, i - 1), i)
         ELSE NonPad(tg, pad, i - 1)

\* non_pad_mask = target.ne(self.padding_idx)
non_pad_mask(tg, pad) == NonPad(tg, pad, Len(tg))

\* -lprobs.gather(dim=-1, index=target)[non_pad_mask]
NllTerms(lp, tg, pad) ==
    LET keep == non_pad_mask(tg, pad)
    IN [m \in 1..Len(keep) |-> RNeg(lp[keep[m]][tg[keep[m]]])]

\* -lprobs.sum(dim=-1, keepdim=True)[non_pad_mask]
SmoothTerms(lp, tg, pad, V) ==
    LET keep == non_pad_mask(tg, pad)
    IN [m \in 1..Len(keep) |-> RNeg(RSum(lp[keep[m]], 0, V - 1))]

\* a loss weighted by eps instead of 1 - eps
CombineEps(e, V, nll, smooth) ==
    RAdd(RMul(e, nll), RMul(RDiv(e, Fin(V, 1)), smooth))

\* loss = (1. - self.eps) * nll_loss + eps_i * smooth_loss
Combine(e, V, nll, smooth) ==
    RAdd(RMul(RSub(One, e), nll), RMul(RDiv(e, Fin(V, 1)), smooth))

\* compute_loss: <<loss, nll_loss>>, scalars if reduce, else one entry per
\* non-padding position
compute_loss(lp, tg, pad, e, red) ==
    LET V      == Cardinality(DOMAIN lp[1])
        nll    == NllTerms(lp, tg, pad)
        smooth == SmoothTerms(lp, tg, pad, V)
    IN IF red
       THEN LET ns == RSum(nll, 1, Len(nll))
                ss == RSum(smooth, 1, Len(smooth))
            IN <<Combine(e, V, ns, ss), ns>>
       ELSE <<[m \in 1..Len(nll) |-> Combine(e, V, nll[m], smooth[m])], nll>>

\* normalised rows of log-probabilities: all the mass on one word, or
\* 1/2, 1/4, ... over the words
OneHotRow(V, w) == [v \in 0..V-1 |-> IF v = w THEN Zero ELSE NegInf]
SpreadRow(V) == [v \in 0..V-1 |-> IF v < V - 1 THEN Fin(-(v + 1), 1) ELSE Fin(-v, 1)]
Rows(V) == {OneHotRow(V, w) : w \in 0..V-1} \cup {SpreadRow(V)}
EpsValues == {Zero, Fin(1, 10), Fin(1, 2)}

ComputeLoss ==
    /\ pc = "loss"
    /\ LET r == compute_loss(lprobs, target, padding_idx, eps, reduce)
       IN loss' = r[1] /\ nll_loss' = r[2]
    /\ pc' = "loss_done"
    /\ UNCHANGED <<eps, padding_idx, lprobs, target, reduce>>
    /\ UNCHANGED <<lseVars, gateVars, hmmVars, aggVars>>

(***************************************************************************)
(* AlignLabelSmoothedCrossEntropyCriterion.forward (its logging output)    *)
(* and aggregate_logging_outputs.  A value divided by math.log(2) is held  *)
(* as [k |-> "bits", n, d]: the float (n/d) / ln 2.                        *)
(***************************************************************************)
DivLog2(u) == [k |-> "bits", n |-> u.n, d |-> u.d]

\* what one worker's batch gives forward: the sample's counts and the
\* losses computed from it
Batches ==
    [ntokens : {4, 10}, nsentences : {1, 2},
     writing_loss : {Fin(4, 1), Fin(6, 1)}, nll_loss : {Fin(4, 1), Fin(6, 1)},
     align_loss : {Fin(2, 1)}]

\* the logging_output of forward
LoggingOutput(bt, avg, scale) ==
    [loss         |-> RAdd(bt.writing_loss, RMul(scale, bt.align_loss)),
     writing_loss |-> bt.writing_loss,
     regul_loss   |-> bt.align_loss,
     nll_loss     |-> bt.nll_loss,
     ntokens      |-> bt.ntokens,
     nsentences   |-> bt.nsentences,
     sample_size  |-> IF avg THEN bt.nsentences ELSE bt.ntokens]

\* sum(log.get(key, 0) for log in logging_outputs) of a count
RECURSIVE SumCount(_, _, _)
SumCount(logs, key, i) ==
    IF i = 0 THEN 0 ELSE SumCount(logs, key, i - 1) + logs[i][key]

\* sum(log.get(key, 0) for log in logging_outputs) of a loss
RECURSIVE SumLoss(_, _, _)
SumLoss(logs, key, i) ==
    IF i = 0 THEN Zero ELSE RAdd(SumLoss(logs, key, i - 1), logs[i][key])

\* an average of the workers' own averages
RECURSIVE SumOfAverages(_, _, _, _)
SumOfAverages(logs, key, by, i) ==
    IF i = 0 THEN Zero
    ELSE RAdd(SumOfAverages(logs, key, by, i - 1),
              RDiv(logs[i][key], Fin(logs[i][by], 1)))

AverageOfAverages(logs, key, by, total) ==
    DivLog2(RDiv(SumOfAverages(logs, key, by, Len(logs)), Fin(Len(logs), 1)))

\* sum(...) / total / math.log(2)
Normalized(logs, key, by, total) ==
    DivLog2(RDiv(SumLoss(logs, key, Len(logs)), Fin(total, 1)))

\* aggregate_logging_outputs; Python raises ZeroDivisionError on a zero total
aggregate_logging_outputs(logs) ==
    LET nt == SumCount(logs, "ntokens", Len(logs))
        ns == SumCount(logs, "nsentences", Len(logs))
        ss == SumCount(logs, "sample_size", Len(logs))
    IN IF ss = 0 \/ nt = 0
       THEN [error |-> "ZeroDivisionError"]
       ELSE [loss         |-> Normalized(logs, "loss", "sample_size", ss),
             nll_loss     |-> Normalized(logs, "nll_loss", "ntokens", nt),
             writing_loss |-> Normalized(logs, "writing_loss", "ntokens", nt),
             regul_loss   |-> Normalized(logs, "regul_loss", "ntokens", nt),
             ntokens      |-> nt,
             nsentences   |-> ns,
             sample_size  |-> ss]

\* forward on one more worker, whose logging output joins the list
Forward ==
    /\ pc = "collect"
    /\ Len(logging_outputs) < MaxWorkers
    /\ \E bt \in Batches :
          logging_outputs' =
              Append(logging_outputs, LoggingOutput(bt, sentence_avg, regul_align_scale))
    /\ UNCHANGED <<pc, sentence_avg, regul_align_scale, aggregated>>
    /\ UNCHANGED <<lseVars, gateVars, hmmVars, lossVars>>

Aggregate ==
    /\ pc = "collect"
    /\ aggregated' = aggregate_logging_outputs(logging_outputs)
    /\ pc' = "agg_done"
    /\ UNCHANGED <<sentence_avg, regul_align_scale, logging_outputs>>
    /\ UNCHANGED <<lseVars, gateVars, hmmVars, lossVars>>

(***************************************************************************)
(* Specifications: one per computation; the variables of the others rest  *)
(***************************************************************************)
LseInit ==
    /\ pc = "lse"
    /\ a \in LogValues
    /\ b \in LogValues
    /\ out = None
    /\ controller_dim = 0 /\ num_controller_layers = 0 /\ gate = <<>>
    /\ in_features = 0 /\ x = 0 /\ l = 0
    /\ Tt = 0 /\ B = 0 /\ Ts = 0 /\ logits = <<>> /\ emissions = <<>>
    /\ controls = <<>> /\ M = <<>> /\ alpha = <<>> /\ beta = <<>>
    /\ prior = <<>> /\ gamma = <<>> /\ ksi = <<>> /\ read = <<>> /\ write = <<>>
    /\ eps = None /\ padding_idx = 0 /\ lprobs = <<>> /\ target = <<>>
    /\ reduce = FALSE /\ loss = <<>> /\ nll_loss = <<>>
    /\ sentence_avg = FALSE /\ regul_align_scale = None
    /\ logging_outputs = <<>> /\ aggregated = <<>>

SpecLse == LseInit /\ [][LseCall]_vars

GateInit ==
    /\ pc = "init_loop"
    /\ controller_dim \in 1..MaxDim
    /\ num_controller_layers \in 0..MaxLayers
    /\ gate = <<>>
    /\ in_features = controller_dim
    /\ x = 0
    /\ l = 0
    /\ a = None /\ b = None /\ out = None
    /\ Tt = 0 /\ B = 0 /\ Ts = 0 /\ logits = <<>> /\ emissions = <<>>
    /\ controls = <<>> /\ M = <<>> /\ alpha = <<>> /\ beta = <<>>
    /\ prior = <<>> /\ gamma = <<>> /\ ksi = <<>> /\ read = <<>> /\ write = <<>>
    /\ eps = None /\ padding_idx = 0 /\ lprobs = <<>> /\ target = <<>>
    /\ reduce = FALSE /\ loss = <<>> /\ nll_loss = <<>>
    /\ sentence_avg = FALSE /\ regul_align_scale = None
    /\ logging_outputs = <<>> /\ aggregated = <<>>

GateNext == InitLayer \/ InitFinal \/ GateLayer \/ GateFinal

SpecGate == GateInit /\ [][GateNext]_vars

HmmInit ==
    /\ pc = "predict"
    /\ Tt \in 1..MaxTt
    /\ B \in 1..MaxB
    /\ Ts \in 1..MaxTs
    /\ \E p \in Patterns(LogitValues, 2) :
          logits = [n \in 0..B-1 |-> [t \in 0..Tt-1 |-> [j \in 0..Ts-1 |->
                       p[((n * Tt + t) * (Ts + 1) + j) % 2]]]]
    /\ \E p \in Patterns(EmissionValues, 3) :
          emissions = [t \in 0..Tt-1 |-> [n \in 0..B-1 |-> [j \in 0..Ts-1 |->
                          p[((t * B + n) * (Ts + 1) + 2 * j) % 3]]]]
    /\ controls = <<>> /\ M = <<>> /\ alpha = <<>> /\ beta = <<>>
    /\ prior = <<>> /\ gamma = <<>> /\ ksi = <<>> /\ read = <<>> /\ write = <<>>
    /\ a = None /\ b = None /\ out = None
    /\ controller_dim = 0 /\ num_controller_layers = 0 /\ gate = <<>>
    /\ in_features = 0 /\ x = 0 /\ l = 0
    /\ eps = None /\ padding_idx = 0 /\ lprobs = <<>> /\ target = <<>>
    /\ reduce = FALSE /\ loss = <<>> /\ nll_loss = <<>>
    /\ sentence_avg = FALSE /\ regul_align_scale = None
    /\ logging_outputs = <<>> /\ aggregated = <<>>

HmmNext ==
    \/ PredictReadWrite \/ GetTransitions \/ ForwardAlpha \/ BackwardBeta
    \/ Posteriors \/ Labels

SpecHmm == HmmInit /\ [][HmmNext]_vars

LossInit ==
    /\ pc = "loss"
    /\ eps \in EpsValues
    /\ reduce \in BOOLEAN
    /\ \E V \in 2..MaxVocab, N \in 1..MaxPositions :
          /\ padding_idx = 1        \* <pad> is word 1 of a fairseq dictionary
          /\ lprobs \in [1..N -> Rows(V)]
          /\ target \in [1..N -> 0..V-1]
    /\ loss = <<>> /\ nll_loss = <<>>
    /\ a = None /\ b = None /\ out = None
    /\ controller_dim = 0 /\ num_controller_layers = 0 /\ gate = <<>>
    /\ in_features = 0 /\ x = 0 /\ l = 0
    /\ Tt = 0 /\ B = 0 /\ Ts = 0 /\ logits = <<>> /\ emissions = <<>>
    /\ controls = <<>> /\ M = <<>> /\ alpha = <<>> /\ beta = <<>>
    /\ prior = <<>> /\ gamma = <<>> /\ ksi = <<>> /\ read = <<>> /\ write = <<>>
    /\ sentence_avg = FALSE /\ regul_align_scale = None
    /\ logging_outputs = <<>> /\ aggregated = <<>>

SpecLoss == LossInit /\ [][ComputeLoss]_vars

AggInit ==
    /\ pc = "collect"
    /\ sentence_avg \in BOOLEAN
    /\ regul_align_scale \in {Zero, Fin(1, 2)}
    /\ logging_outputs = <<>>
    /\ aggregated = <<>>
    /\ a = None /\ b = None /\ out = None
    /\ controller_dim = 0 /\ num_controller_layers = 0 /\ gate = <<>>
    /\ in_features = 0 /\ x = 0 /\ l = 0
    /\ Tt = 0 /\ B = 0 /\ Ts = 0 /\ logits = <<>> /\ emissions = <<>>
    /\ controls = <<>> /\ M = <<>> /\ alpha = <<>> /\ beta = <<>>
    /\ prior = <<>> /\ gamma = <<>> /\ ksi = <<>> /\ read = <<>> /\ write = <<>>
    /\ eps = None /\ padding_idx = 0 /\ lprobs = <<>> /\ target = <<>>
    /\ reduce = FALSE /\ loss = <<>> /\ nll_loss = <<>>

AggNext == Forward \/ Aggregate

SpecAgg == AggInit /\ [][AggNext]_vars

(***************************************************************************)
(* Claims about HMMControls2.forward                                       *)
(***************************************************************************)
AfterPosteriors == pc \in {"labels", "hmm_done"}
AfterTransitions == pc \in {"alpha", "beta", "posteriors", "labels", "hmm_done"}

\* C1: with a finite prior, the state-occupancy posterior gamma[t][.] sums
\* to 1 over the source positions at every target step t and batch element:
\* sum_j exp(alpha[t][j] + beta[t][j]) = exp(prior) at every t.
C1_GammaSumsToOne ==
    AfterPosteriors =>
        \A n \in 0..B-1 : IsFinite(prior[n]) =>
            \A t \in 0..Tt-1 :
                /\ RSum(gamma[t][n], 0, Ts - 1) = One
                /\ RSum([j \in 0..Ts-1 |-> Exp(LAdd(alpha[t][n][j], beta[t][n][j]))],
                        0, Ts - 1) = Exp(prior[n])

\* a run with several steps and positions, a masked emission, a finite prior
\* and a posterior that is spread over more than one position
C1_Witness ==
    /\ pc = "hmm_done" /\ Tt >= 3 /\ Ts >= 2
    /\ IsFinite(prior[0])
    /\ \E t \in 0..Tt-1, j \in 0..Ts-1 : emissions[t][0][j] = NegInf
    /\ \E j \in 0..Ts-1 : gamma[0][0][j] \notin {Zero, One}
    /\ \E j \in 0..Ts-1 : gamma[1][0][j] \notin {Zero, One}

\* C2: with a finite prior and target_len >= 2, the transition posterior
\* ksi[t] sums to 1 over all (source_from, source_to) pairs, for every t in
\* 0..target_len-2 and every batch element.
C2_KsiSumsToOne ==
    (AfterPosteriors /\ Tt >= 2) =>
        \A n \in 0..B-1 : IsFinite(prior[n]) =>
            \A t \in 0..Tt-2 :
                RSum([k \in 0..Ts-1 |-> RSum(ksi[t][n][k], 0, Ts - 1)],
                     0, Ts - 1) = One

C2_Witness ==
    /\ pc = "hmm_done" /\ Tt >= 3 /\ Ts >= 2
    /\ IsFinite(prior[0])
    /\ \E k \in 0..Ts-1, j \in 0..Ts-1 :
          k < j /\ ksi[Tt-2][0][k][j] \notin {Zero, One}

\* C3: M[t][b][k][j] is -infinity for j < k and, for j >= k, the write
\* log-probability at j plus the read log-probabilities over k..j-1, taken
\* after the boundary override (read -infinity, write 0 at the last source
\* position); the last column is the sum of the input's log_rho over
\* k..S-2 whatever the input held at S-1, and is not -infinity.
C3_TransitionMatrix ==
    AfterTransitions =>
        \A t \in 0..Tt-1, n \in 0..B-1, k \in 0..Ts-1, j \in 0..Ts-1 :
            LET reads == LSum([i \in 0..Ts-1 |-> controls[t][n][i][0]], k, j - 1)
            IN /\ j < k => M[t][n][k][j] = NegInf
               /\ (j >= k /\ j < Ts - 1) =>
                      M[t][n][k][j] = LAdd(controls[t][n][j][1], reads)
               /\ (j >= k /\ j = Ts - 1) =>
                      M[t][n][k][j] = reads /\ M[t][n][k][j] # NegInf

\* a matrix of three source positions whose input holds finite read and
\* write values at the last position, with an interior column that differs
\* from the last one
C3_Witness ==
    /\ pc = "alpha" /\ Ts >= 3
    /\ controls[0][0][Ts-1][0] = LogOf(3, 4)
    /\ controls[0][0][Ts-1][1] = LogOf(1, 4)
    /\ M[0][0][0][Ts-1] \notin {NegInf, Log1}
    /\ M[0][0][0][1] # M[0][0][0][Ts-1]
    /\ M[0][0][1][0] = NegInf

\* every cell's read/write pair is a probability pair
ProbabilityPairs ==
    \A t \in 0..Tt-1, n \in 0..B-1, j \in 0..Ts-1 :
        RAdd(Exp(controls[t][n][j][0]), Exp(controls[t][n][j][1])) = One

\* C10: when every read/write pair is a probability pair, every row of the
\* transition matrix is a probability distribution over the destinations
\* j >= k, and the last row is absorbing (M[S-1][S-1] = 0).
C10_RowsAreDistributions ==
    (AfterTransitions /\ ProbabilityPairs) =>
        \A t \in 0..Tt-1, n \in 0..B-1 :
            /\ \A k \in 0..Ts-1 :
                  RSum([j \in 0..Ts-1 |-> Exp(M[t][n][k][j])], k, Ts - 1) = One
            /\ M[t][n][Ts-1][Ts-1] = Log1

C10_Witness ==
    /\ pc = "alpha" /\ Ts >= 3 /\ ProbabilityPairs
    /\ \A j \in 0..Ts-1 : Exp(M[0][0][0][j]) \notin {Zero, One}
    /\ controls[0][0][0] # controls[0][0][1]

\* C9: read[t][j] is the sum of ksi[t][k][j'] over k <= j < j', for every t
\* in 0..target_len-2 and source position j; read[t][source_len-1] = 0,
\* read[t][0] is the sum of ksi[t][0][j'] over j' >= 1, and
\* write[t] = gamma[t+1].
C9_ReadWriteLabels ==
    pc = "hmm_done" =>
        /\ DOMAIN read = 0..Tt-2 /\ DOMAIN write = 0..Tt-2
        /\ \A t \in 0..Tt-2, n \in 0..B-1 :
              /\ \A j \in 0..Ts-1 :
                    read[t][n][j] =
                        RSum([c \in 0..Ts*Ts-1 |->
                                 LET k  == c \div Ts
                                     jj == c % Ts
                                 IN IF k <= j /\ jj >= j + 1
                                    THEN ksi[t][n][k][jj] ELSE Zero],
                             0, Ts * Ts - 1)
              /\ read[t][n][Ts-1] = Zero
              /\ read[t][n][0] = RSum(ksi[t][n][0], 1, Ts - 1)
              /\ write[t][n] = gamma[t+1][n]

C9_Witness ==
    /\ pc = "hmm_done" /\ Tt >= 3 /\ Ts >= 3
    /\ IsFinite(prior[0])
    /\ read[0][0][0] \notin {Zero, One}
    /\ read[1][0][1] \notin {Zero, One}
    /\ read[1][0][1] # read[1][0][0]

(***************************************************************************)
(* Claims about logsumexp and the gate network                             *)
(***************************************************************************)
\* C4: logsumexp(a, b) returns -infinity, never NaN, when both operands are
\* -infinity.
C4_NegInfStaysNegInf ==
    (pc = "lse_done" /\ a = NegInf /\ b = NegInf) => out = NegInf

\* C8: for every controller_dim >= 1 and num_controller_layers >= 0 the gate
\* network is built and maps width C to width 1 without error: every gated
\* layer gets the width it was built for, that width is even and not 0 when
\* the gated linear unit splits it, and the final projection gets the width
\* it was built for.
C8_GateNeverFails ==
    /\ pc \notin {"init_error", "gate_error"}
    /\ pc = "gate_loop" =>
          /\ x = gate[l].in_features
          /\ l < Len(gate) => (x > 0 /\ gate[l].out_features % 2 = 0)
    /\ pc = "gate_done" => x = 1

(***************************************************************************)
(* Claims about the criterion                                              *)
(***************************************************************************)
\* C5: with epsilon = 0 the loss returned by compute_loss equals the
\* nll_loss returned with it, for every batch, also when a log-probability
\* at a non-padding position is -infinity.
C5_EpsZeroLossIsNll ==
    (pc = "loss_done" /\ eps = Zero) => loss = nll_loss

VocabSize == Cardinality(DOMAIN lprobs[1])

\* the negative log-probability of the true label at position i
TrueLabelTerm(i) == RNeg(lprobs[i][target[i]])

\* the negative sum of all log-probabilities at position i
AllLabelsTerm(i) ==
    RNeg(RSum([v \in 1..VocabSize |-> lprobs[i][v - 1]], 1, VocabSize))

\* the sum of term(i) over the non-padding positions i >= from
RECURSIVE OverNonPadding(_, _)
OverNonPadding(term(_), from) ==
    IF from > Len(target) THEN Zero
    ELSE IF target[from] = padding_idx THEN OverNonPadding(term, from + 1)
         ELSE RAdd(term(from), OverNonPadding(term, from + 1))

NonPaddingPositions == {i \in 1..Len(target) : target[i] # padding_idx}

\* the m-th non-padding position
Position(m) ==
    CHOOSE i \in NonPaddingPositions :
        Cardinality({h \in NonPaddingPositions : h <= i}) = m

\* C7 as stated: the loss is epsilon * nll_loss + (epsilon / vocab_size) *
\* smooth_loss, both summed over the non-padding positions.
C7_LossWeightedByEps ==
    (pc = "loss_done" /\ reduce) =>
        loss = RAdd(RMul(eps, OverNonPadding(TrueLabelTerm, 1)),
                    RMul(RDiv(eps, Fin(VocabSize, 1)),
                         OverNonPadding(AllLabelsTerm, 1)))

\* C7, amended: the loss is (1 - epsilon) * nll_loss + (epsilon /
\* vocab_size) * smooth_loss, nll_loss the negative log-probability of the
\* true label and smooth_loss the negative sum of all log-probabilities,
\* each summed over the non-padding positions only (without reduce: the
\* same combination at each non-padding position).
C7_LabelSmoothedLoss ==
    pc = "loss_done" =>
        LET w1 == RSub(One, eps)
            w2 == RDiv(eps, Fin(VocabSize, 1))
        IN IF reduce
           THEN /\ nll_loss = OverNonPadding(TrueLabelTerm, 1)
                /\ loss = RAdd(RMul(w1, OverNonPadding(TrueLabelTerm, 1)),
                               RMul(w2, OverNonPadding(AllLabelsTerm, 1)))
           ELSE /\ Len(loss) = Cardinality(NonPaddingPositions)
                /\ Len(nll_loss) = Cardinality(NonPaddingPositions)
                /\ \A m \in 1..Len(loss) :
                      /\ nll_loss[m] = TrueLabelTerm(Position(m))
                      /\ loss[m] = RAdd(RMul(w1, TrueLabelTerm(Position(m))),
                                        RMul(w2, AllLabelsTerm(Position(m))))

\* a reduced loss with smoothing over a batch with a padding position and
\* another one, the loss finite and different from nll_loss
C7_Witness ==
    /\ pc = "loss_done" /\ reduce /\ eps = Fin(1, 10)
    /\ Len(target) - Cardinality(NonPaddingPositions) >= 1
    /\ Cardinality(NonPaddingPositions) >= 1
    /\ loss.k = "fin" /\ nll_loss.k = "fin" /\ nll_loss # Zero
    /\ loss # nll_loss

\* the sum of logging_outputs[i][key] over the workers i >= from
RECURSIVE TotalLoss(_, _)
TotalLoss(key, from) ==
    IF from > Len(logging_outputs) THEN Zero
    ELSE RAdd(logging_outputs[from][key], TotalLoss(key, from + 1))

RECURSIVE TotalCount(_, _)
TotalCount(key, from) ==
    IF from > Len(logging_outputs) THEN 0
    ELSE logging_outputs[from][key] + TotalCount(key, from + 1)

\* v is the float (total / count) / ln 2
IsBitsPer(v, total, count) ==
    /\ v.k = "bits"
    /\ RMul(Fin(v.n, v.d), Fin(count, 1)) = total

Aggregated == pc = "agg_done" /\ "error" \notin DOMAIN aggregated

\* C6 as stated: every loss component (loss, nll_loss, writing_loss,
\* regul_loss) is its sum over the workers divided by the total ntokens and
\* by ln 2, for any sample_size the workers report.
C6_AllPerToken ==
    Aggregated =>
        \A key \in {"loss", "nll_loss", "writing_loss", "regul_loss"} :
            IsBitsPer(aggregated[key], TotalLoss(key, 1), TotalCount("ntokens", 1))

\* C6, amended: nll_loss, writing_loss and regul_loss are their sums over
\* the workers divided by the total ntokens and by ln 2, and loss is its sum
\* divided by the total sample_size and by ln 2 (the total ntokens when every
\* worker reports sample_size = ntokens), whenever the totals are not zero;
\* never an average of per-worker averages.
C6_ExactSums ==
    Aggregated =>
        /\ \A key \in {"nll_loss", "writing_loss", "regul_loss"} :
              IsBitsPer(aggregated[key], TotalLoss(key, 1), TotalCount("ntokens", 1))
        /\ IsBitsPer(aggregated.loss, TotalLoss("loss", 1),
                     TotalCount("sample_size", 1))
        /\ (\A i \in 1..Len(logging_outputs) :
                logging_outputs[i].sample_size = logging_outputs[i].ntokens)
               => IsBitsPer(aggregated.loss, TotalLoss("loss", 1),
                            TotalCount("ntokens", 1))
        /\ \A key \in {"ntokens", "nsentences", "sample_size"} :
              aggregated[key] = TotalCount(key, 1)

\* the two workers of the claim, (nll_loss 4, ntokens 10) and (nll_loss 6,
\* ntokens 10), give 10/20/ln 2, under sentence averaging
C6_Witness ==
    /\ Aggregated /\ Len(logging_outputs) = 2 /\ sentence_avg
    /\ logging_outputs[1].nll_loss = Fin(4, 1) /\ logging_outputs[1].ntokens = 10
    /\ logging_outputs[2].nll_loss = Fin(6, 1) /\ logging_outputs[2].ntokens = 10
    /\ aggregated.nll_loss = DivLog2(Fin(1, 2))
    /\ aggregated.sample_size # aggregated.ntokens

====
